---------------------------- MODULE Spec2Model ----------------------------
(***************************************************************************)
(* Model of the spotify-scrape crawler: Scraper (scraper.py), PathQueues   *)
(* (path_queues.py), BatchReqBuilder (batch_req_builder.py), BackoffPolicy *)
(* (backoff_policy.py), Cache (cache.py), ArtistsWriter                    *)
(* (artists_writer.py) and the outcomes of SpotifyClient.fetch.            *)
(*                                                                         *)
(* Scheduling.  The workers and Scraper.run are asyncio tasks of one event *)
(* loop.  The loop runs the task at the head of its FIFO of ready tasks    *)
(* until that task suspends.  A task suspends in `await self._sc.fetch`    *)
(* (aiohttp), in `await asyncio.sleep(wait_sec)`, in `await queue.get()`   *)
(* on an empty queue and in `await queue.join()` with unfinished items.    *)
(* The other awaits do not suspend: Cache wraps the synchronous redis      *)
(* client in an asyncio.Lock that is never held across a suspension, and   *)
(* the locks of BackoffPolicy, BatchReqBuilder, PathQueues and             *)
(* ArtistsWriter and the put of the unbounded queue are the same.  A       *)
(* program counter names the await a task stands at; a step performs the   *)
(* awaited call and the code up to the next await, and the task keeps the  *)
(* head of the FIFO unless that await suspends it.  A suspended task       *)
(* rejoins the FIFO when its response or timer arrives, when a put hands   *)
(* it an item, or when task_done brings the unfinished count to zero.      *)
(*                                                                         *)
(* The hard-coded rates of the program (batch size 50, flush rate 50,      *)
(* score update rate 20, writer limit 100, rate limit safety 5) are scaled *)
(* down to the values below so that a bounded run crosses them.            *)
(***************************************************************************)
EXTENDS Integers, Sequences, FiniteSets, TLC

None == "None"

\* None where the other values are numbers (retry_after)
NoSeconds == -1

\* ----------------------------------------------------------------- bounds
NumWorkers == 2
MaxQuota == 6
MaxFaults == 2
MaxOps == 5
MaxCalls == 6
MaxFlush == 2
MaxAttempts == 4
MaxRetryAfter == 3

\* ------------------------------------------------------ program constants
RATE_LIMIIT_SAFETY == 2
SCORE_UPDATE_RATE == 3
FLUSH_RATE == 4
BatchSize == 2
LIMIT == 2
FlushNum == 100
BackoffCap == 1800
BackoffBase == 1

Workers == 1..NumWorkers

\* The task of Scraper.run among the tasks of the event loop.
Main == 0

\* SpotifyAPIConstants.PATHS: the route kinds, in the order of the table.
PATHS ==
  << "genre_seeds", "artists", "recommendations", "albums", "categories",
     "category_playlists", "playlist", "artist_related_artists", "search" >>

Routes == {PATHS[i] : i \in 1..Len(PATHS)}

RouteIndex(r) == CHOOSE i \in 1..Len(PATHS) : PATHS[i] = r

\* ------------------------------------------------------------- endpoints
\* An endpoint is {'path': ..., 'params': ...}.  A path is its sequence of
\* segments; params is a record of the query keys the crawler uses.
NoParams == [seed_genres |-> None, seed_artists |-> None, q |-> None, ids |-> <<>>]

GENRE_SEEDS == [path |-> <<"recommendations", "available-genre-seeds">>, params |-> NoParams]

RecommendationsEP(genre, artist_id) ==
  [path |-> <<"recommendations">>,
   params |-> [NoParams EXCEPT !.seed_genres = genre, !.seed_artists = artist_id]]

SearchEP(genre) ==
  [path |-> <<"search">>, params |-> [NoParams EXCEPT !.q = genre]]

\* The follow-up of a paginated search: the path cut from the `next` URL.
SearchNextEP(genre) ==
  [path |-> <<"search", genre, "offset">>, params |-> NoParams]

\* The follow-up of the follow-up.
SearchThirdEP(genre) ==
  [path |-> <<"search", genre, "offset", "offset">>, params |-> NoParams]

ArtistsEP(id_string) ==
  [path |-> <<"artists">>, params |-> [NoParams EXCEPT !.ids = id_string]]

RelatedEP(artist_id) ==
  [path |-> <<"artists", artist_id, "related-artists">>, params |-> NoParams]

NoEP == [path |-> <<>>, params |-> NoParams]

\* process_valid_endpoint's chain of path.startswith(STATIC_PATHS[...]),
\* in the order of the chain, on the paths the crawl can produce.
RouteOf(path) ==
  IF Len(path) >= 2 /\ path[1] = "recommendations" /\ path[2] = "available-genre-seeds"
    THEN "genre_seeds"
  ELSE IF Len(path) >= 1 /\ path[1] = "recommendations" THEN "recommendations"
  ELSE IF Len(path) >= 2 /\ path[1] = "artists" THEN "artist_related_artists"
  ELSE IF Len(path) >= 1 /\ path[1] = "artists" THEN "artists"
  ELSE "search"

\* ------------------------------------------------- scripted response graph
ArtistIds == {"a1", "a2", "a3", "a4", "a5"}
GenreNames == {"g1"}
AlbumIds == {"al1"}
Keys == ArtistIds \cup GenreNames \cup AlbumIds

\* An artist reference of a response: with or without detail.
Full(id) == [id |-> id, full |-> TRUE]
Ref(id) == [id |-> id, full |-> FALSE]

\* The items of a response with a payload-shape error: a JSON null where an
\* artist object is expected (its id stands for the whole item), and an
\* artist object without the key 'id'.
Null == "null"
NullItem == [id |-> Null, full |-> FALSE]
NoIdItem == [id |-> None, full |-> FALSE]

\* The genres of an artist's detail record.
GenresOf(id) == IF id = "a1" THEN <<"g1">> ELSE <<>>

RECURSIVE SetToSeq(_)
SetToSeq(S) ==
  IF S = {} THEN <<>>
  ELSE LET x == CHOOSE y \in S : TRUE IN <<x>> \o SetToSeq(S \ {x})

\* The body of a 200 response, by endpoint.
\*   genres  : data['genres']
\*   artists : the artist references the handler feeds to process_artists
\*   albums  : [track['album'] ...], each with its own artist references
\*   next    : the follow-up endpoint of a paginated response, or NoEP
EmptyData == [genres |-> <<>>, artists |-> <<>>, albums |-> <<>>, next |-> NoEP]

Response(ep) ==
  LET route == RouteOf(ep.path) IN
  IF route = "genre_seeds" THEN [EmptyData EXCEPT !.genres = <<"g1">>]
  ELSE IF route = "recommendations" THEN
    [EmptyData EXCEPT !.artists = <<Ref("a1")>>,
                      !.albums = << [id |-> "al1", artists |-> <<Ref("a3"), Ref("a1")>>] >>]
  ELSE IF route = "artist_related_artists" THEN
    [EmptyData EXCEPT !.artists = IF ep.path[2] = "a1" THEN <<Full("a2")>> ELSE <<>>]
  ELSE IF route = "artists" THEN
    [EmptyData EXCEPT !.artists = [i \in 1..Len(ep.params.ids) |-> Full(ep.params.ids[i])]]
  ELSE IF Len(ep.path) = 1 THEN
    [EmptyData EXCEPT !.artists = <<Full("a1"), Full("a4")>>,
                      !.next = SearchNextEP(ep.params.q)]
  ELSE IF Len(ep.path) = 3 THEN
    [EmptyData EXCEPT !.artists = <<Full("a2"), Ref("a5")>>,
                      !.next = SearchThirdEP(ep.path[2])]
  ELSE [EmptyData EXCEPT !.artists = <<Full("a2"), Ref("a3")>>]

\* ------------------------------------------------------------ PathQueues
EmptyQueues == [r \in Routes |-> <<>>]

\* PathQueues.put
Put(qs, path_key, item) == [qs EXCEPT ![path_key] = Append(@, item)]

\* sort_path_queues: scores[path] = 0 if calls == 0 else
\* (added + 0.5*batched)/calls, kept as the fraction num/den (doubled).
Score(data) ==
  IF data.calls = 0 THEN [num |-> 0, den |-> 1]
  ELSE [num |-> 2 * data.added + data.batched, den |-> data.calls]

\* sort_path_queues: the dict `scores`, its keys in insertion order.
Scores(rd) == [keys |-> PATHS, val |-> [r \in Routes |-> Score(rd[r])]]

\* PathQueues.set_priority:
\* sorted(scores.keys(), key=lambda x: scores[x], reverse=True).  The key at
\* position i goes before the key at j when its score is higher, or equal
\* with i first (the sort is stable).
SetPriority(scores) ==
  LET ks == scores.keys
      Before(i, j) ==
        LET l == scores.val[ks[i]].num * scores.val[ks[j]].den
            r == scores.val[ks[j]].num * scores.val[ks[i]].den
        IN  l > r \/ (l = r /\ i < j)
  IN  [p \in 1..Len(ks) |->
         ks[CHOOSE i \in 1..Len(ks) :
              Cardinality({j \in 1..Len(ks) : Before(j, i)}) = p - 1]]

Range(q) == {q[i] : i \in 1..Len(q)}

SubSeqTo(s, n) == SubSeq(s, 1, n)
SubSeqFrom(s, n) == SubSeq(s, n + 1, Len(s))
Min(a, b) == IF a < b THEN a ELSE b

\* PathQueues.flush(num): the loop over self._priority from position i on.
\* (The queues and the output of the next round are bound to their values
\* before the round is entered, so that each is computed once.)
RECURSIVE FlushFrom(_, _, _, _, _)
FlushFrom(prio, qs, output, num, i) ==
  IF i > Len(prio) \/ Len(output) >= num THEN [output |-> output, queues |-> qs]
  ELSE LET path == prio[i]
           size == Min(num - Len(output), Len(qs[path]))
       IN  CHOOSE r \in {FlushFrom(prio, q, o, num, i + 1) :
                            q \in {[qs EXCEPT ![path] = SubSeqFrom(@, size)]},
                            o \in {output \o SubSeqTo(qs[path], size)}} : TRUE

\* flush(num) that visits the routes in the order of the table
FlushInTableOrder(prio, qs, num) == FlushFrom(PATHS, qs, <<>>, num, 1)

Flush(prio, qs, num) == FlushFrom(prio, qs, <<>>, num, 1)


\* ------------------------------------------------------------------ state
VARIABLES
  seed,            \* Scraper._seed
  quota,           \* MAX_NUM_ARTISTS (--max-num-artists)
  cache,           \* the key-value store behind Cache: key -> "absent" | "1" | "2"
  total,           \* Scraper._total
  rate_limit_hits, \* Scraper._rate_limit_hits
  attempts,        \* BackoffPolicy._attempts
  retry_after,     \* BackoffPolicy._retry_after (NoSeconds or seconds)
  ids,             \* BatchReqBuilder._ids
  num_ids,         \* BatchReqBuilder._num_ids
  queue,           \* Scraper._queue: the items not yet taken
  unfinished,      \* asyncio.Queue._unfinished_tasks
  pq_queues,       \* PathQueues._queues
  pq_priority,     \* PathQueues._priority
  pq_size,         \* PathQueues._size
  route_data,      \* Scraper._route_data (calls, added, batched)
  artists,         \* ArtistsWriter.artists: ids of the buffered rows
  file,            \* artists.csv: ids of the rows appended
  mpc,             \* Scraper.run: the await it is suspended in
  mwoken,          \* the future run() waits on in queue.join() is resolved
  mout,            \* run()'s flush_path_queues: endpoints still to put
  wk,              \* per worker: the await it is suspended in and its locals
  ready,           \* the event loop's FIFO of ready tasks; its head is running
  getters,         \* asyncio.Queue._getters: the workers suspended in get()
  faults,          \* failed fetches so far (bounded by MaxFaults)
  add_calls,       \* history: ArtistsWriter.add calls per artist id
  batch_adds,      \* history: BatchReqBuilder.add calls per artist id
  emitted,         \* history: the ids of the /artists requests emitted
  behind,          \* history: <<b, e>>: endpoint e was staged or queued when the
                   \* /artists request b was emitted, and b is not yet taken
  genre_hist,      \* history, per genre: the times process_genres met it, and
                   \* the /recommendations and /search endpoints staged for it
  ops,             \* a component driven alone: the calls made so far
  lastop,          \* ... the last call: its name, its argument, its number
  returned,        \* ... the value the last build() or flush() returned
  since,           \* ... the ids added since the last build()
  p5               \* ... how far the calls so far follow the P5 scenario

vars ==
  << seed, quota, cache, total, rate_limit_hits, attempts, retry_after, ids,
     num_ids, queue, unfinished, pq_queues, pq_priority, pq_size, route_data,
     artists, file, mpc, mwoken, mout, wk, ready, getters, faults, add_calls,
     batch_adds,
     emitted, behind, genre_hist, ops, lastop, returned, since, p5 >>

backoff_vars == << attempts, retry_after >>
builder_vars == << ids, num_ids >>
staging_vars == << pq_queues, pq_priority, pq_size >>
writer_vars == << artists, file >>
main_vars == << mpc, mwoken, mout >>
sched_vars == << ready, getters >>
config_vars == << seed, quota >>
history_vars == << add_calls, batch_adds, emitted, behind, genre_hist >>
unit_vars == << ops, lastop, returned, since, p5 >>

NoScores == [keys |-> <<>>, val |-> <<>>]
NoOp == [op |-> None, arg |-> None, n |-> 0, scores |-> NoScores]

NoRouteData == [r \in Routes |-> [calls |-> 0, added |-> 0, batched |-> 0]]

\* A worker's locals.  pc names the await the worker is suspended in.
Idle ==
  [pc |-> "get",        \* `await self._queue.get()`
   ep |-> NoEP,         \* endpoint
   al |-> <<>>,         \* process_artists: the references from the current one on
   phase |-> "plain",   \* what follows process_artists in the handler
   albs |-> <<>>,       \* process_albums: the albums from the current one on
   alba |-> <<>>,       \* process_albums: the artists of all its albums
   next |-> NoEP,       \* process_search: the follow-up endpoint
   gl |-> <<>>,         \* process_genres: the genres from the current one on
   gaid |-> None,       \* process_genres: artist_id
   added |-> 0,         \* process_valid_endpoint: added
   batched |-> 0,       \* process_valid_endpoint: batched
   built |-> <<>>,      \* the value of build() on its way to put
   out |-> <<>>,        \* flush_path_queues: endpoints still to put
   scores |-> Scores(NoRouteData), \* sort_path_queues: scores
   canc |-> FALSE,      \* the task has been cancelled and is unwinding
   ra |-> NoSeconds,       \* process_endpoint: retry_after
   hit |-> FALSE,       \* history: the fetch of the item last taken returned 429
   hdr |-> NoSeconds,      \* history: the Retry-After header of that response
   hits |-> 0,          \* history: what that response added to _rate_limit_hits
   reinj |-> 0,         \* history: times the item last taken was put back
   incd |-> 0,          \* history: incr_attempts calls made for that item
   tf |-> None,         \* history: the transient failure of that fetch, if any
   disp |-> 0,          \* history: process_valid_endpoint calls made for that item
   seen |-> 0,          \* history: the attempts get_backoff read for that item
   prevexc |-> FALSE,   \* history: the item before that one raised an exception
   auth |-> None,       \* history: the 401 / 403 outcome of that fetch, if any
   bad |-> None,        \* history: the malformed item process_artists met, if any
   tot0 |-> 0]          \* history: _total when the item was taken

\* ------------------------------------------- code between two awaits
\* worker(): back to the top of `while True`, or out on CancelledError.
\* The locals of a worker that has finished its item (the history of the
\* item is kept until the next one is taken).
Finished(L) ==
  [Idle EXCEPT !.canc = L.canc, !.hit = L.hit, !.hdr = L.hdr, !.hits = L.hits,
               !.reinj = L.reinj, !.incd = L.incd, !.tf = L.tf, !.disp = L.disp,
               !.prevexc = L.prevexc, !.auth = L.auth, !.seen = L.seen,
               !.bad = L.bad]

LoopBack(L) == [Finished(L) EXCEPT !.pc = IF L.canc THEN "cancelled" ELSE "get"]

\* process_one, finally: after sort_path_queues returned.
AfterSort(L, tot) ==
  IF tot % FLUSH_RATE = 0
    THEN [Finished(L) EXCEPT !.pc = "flush"]
    ELSE LoopBack(L)

\* process_one, finally: after self._queue.task_done().
AfterTaskDone(L, tot, rd) ==
  IF tot # 0
    THEN IF tot % SCORE_UPDATE_RATE = 0
           THEN [Finished(L) EXCEPT !.pc = "set_priority", !.scores = Scores(rd)]
           ELSE AfterSort(L, tot)
    ELSE LoopBack(L)

\* process_valid_endpoint returned normally.
ValidDone(L) == [L EXCEPT !.pc = "RET_OK"]

\* The quota test with the comparison off by one
QuotaPassed(tot, q) == tot > q

\* `self._total >= MAX_NUM_ARTISTS` (process_artists; process_one tests its
\* negation)
QuotaReached(tot, q) == tot >= q

\* process_artists: the head of `for artist in artists` (the quota check
\* of the loop body included), and what follows the loop in the handler.
\* `artist.get('id')` raises AttributeError on a null item, and an item
\* without an id takes the `break` of the quota test.
\* process_albums: the head of `for album in albums`.
RECURSIVE LoopArtists(_, _, _)
LoopArtists(L, tot, q) ==
  IF L.al # <<>> /\ Head(L.al).id = Null
    THEN [L EXCEPT !.pc = "FIN", !.bad = Null]
  ELSE IF L.al # <<>> /\ ~QuotaReached(tot, q) /\ Head(L.al).id = None
    THEN LoopArtists([L EXCEPT !.al = <<>>, !.bad = "no id"], tot, q)
  ELSE IF L.al # <<>> /\ ~QuotaReached(tot, q)
    THEN [L EXCEPT !.pc = "cache_get"]
  ELSE IF L.phase = "tracks" /\ L.albs # <<>>
    THEN [L EXCEPT !.pc = "album_exists", !.phase = "albums", !.al = <<>>]
  ELSE IF L.phase = "tracks"
    THEN LoopArtists([L EXCEPT !.phase = "albums", !.al = L.alba], tot, q)
  ELSE IF L.phase = "search" /\ L.next # NoEP
    THEN [L EXCEPT !.pc = "put_next", !.al = <<>>]
  ELSE ValidDone(L)

LoopAlbums(L, tot, q) ==
  IF L.albs # <<>>
    THEN [L EXCEPT !.pc = "album_exists"]
    ELSE LoopArtists([L EXCEPT !.al = L.alba], tot, q)

\* process_genres: the head of `for genre in genres`, and the return to
\* the caller (the genre_seeds handler, or process_artists' loop).
LoopGenres(L, tot, q) ==
  IF L.gl # <<>>
    THEN [L EXCEPT !.pc = "cache_exists"]
  ELSE IF L.gaid = None
    THEN ValidDone(L)
    ELSE LoopArtists([L EXCEPT !.al = Tail(@), !.gaid = None], tot, q)

\* `continue` in process_artists
NextArtist(L, tot, q) == LoopArtists([L EXCEPT !.al = Tail(@)], tot, q)

\* The metrics charged at the end of process_valid_endpoint.
Charge(rd, L) ==
  [rd EXCEPT ![RouteOf(L.ep.path)] =
     [calls |-> @.calls + 1, added |-> @.added + L.added, batched |-> @.batched + L.batched]]

\* process_one without its finally block on the exception path
EndedOnReturn(L) == L.pc = "RET_OK"

Ended(L) == L.pc \in {"RET_OK", "FIN"}

\* process_endpoint raised for the item the worker took last: the handler on
\* a 5xx body, or res['data']['retry_after'] on a 429 without the header.
Raised(L) ==
  \/ L.tf = "5xx"
  \/ L.hit /\ L.hdr = NoSeconds
  \/ L.auth = "refresh failed"
  \/ L.bad = Null

\* A worker holds an item it took and has not yet signalled done.
InFlight(L) == L.pc \notin {"get", "set_priority", "flush", "queue_put", "cancelled"}

\* The task at the head of the FIFO of ready tasks is the one running.
Running(t) == ready # <<>> /\ Head(ready) = t

\* The awaits that suspend a worker ("refresh": the fetch of
\* refresh_access_token); "cancelled": worker() has returned.
Suspends(L) == L.pc \in {"fetch", "sleep", "refresh", "cancelled"}

\* The FIFO after a step of its head that stops at L.
Yield(rdy, L) == IF Suspends(L) THEN Tail(rdy) ELSE rdy

\* asyncio.Queue.put_nowait: _wakeup_next(self._getters)
WokenGetter(g) == IF g # <<>> THEN << Head(g) >> ELSE <<>>
OtherGetters(g) == IF g # <<>> THEN Tail(g) ELSE g

\* The end of a worker step: L is the worker's state where its code stopped,
\* tot the value of _total there.  When process_endpoint has returned or
\* raised (pc RET_OK / FIN), the rest of process_one runs in the same step:
\* the metrics (on a normal return of process_valid_endpoint), task_done,
\* and the rate checks of the finally block up to their first await.
\* task_done that brings the unfinished count to zero sets the event
\* run() waits on in join(), which makes run() ready.  A worker that stops
\* at fetch or sleep, or has returned, gives up the head of the FIFO.
Settle(w, L, tot) ==
  LET rd == IF L.pc = "RET_OK" THEN Charge(route_data, L) ELSE route_data
      unf == IF Ended(L) THEN unfinished - 1 ELSE unfinished
      wakes == Ended(L) /\ mpc = "join" /\ unf = 0 /\ ~mwoken
      after == IF Ended(L) THEN AfterTaskDone(L, tot, rd) ELSE L
  IN  /\ route_data' = rd
      /\ unfinished' = unf
      /\ mwoken' = (mwoken \/ wakes)
      /\ wk' = [wk EXCEPT ![w] = after]
      /\ ready' = Yield(ready, after) \o (IF wakes THEN << Main >> ELSE <<>>)
      /\ getters' = getters

\* ------------------------------------------------------------ construction
\* Scraper.__init__ (fresh cache), with the seed and the quota of the run.
InitWith(seeds, quotas) ==
  /\ seed \in seeds
  /\ quota \in quotas
  /\ cache = [k \in Keys |-> "absent"]
  /\ total = 0
  /\ rate_limit_hits = 0
  /\ attempts = 0
  /\ retry_after = NoSeconds
  /\ ids = {}
  /\ num_ids = 0
  /\ queue = <<>>
  /\ unfinished = 0
  /\ pq_queues = EmptyQueues
  /\ pq_priority = PATHS
  /\ pq_size = 0
  /\ route_data = NoRouteData
  /\ artists = <<>>
  /\ file = <<>>
  /\ mpc = "start"
  /\ mwoken = FALSE
  /\ mout = <<>>
  /\ wk = [w \in Workers |-> Idle]
  /\ ready = << Main >>
  /\ getters = <<>>
  /\ faults = 0
  /\ add_calls = [a \in ArtistIds |-> 0]
  /\ batch_adds = [a \in ArtistIds |-> 0]
  /\ emitted = <<>>
  /\ behind = {}
  /\ genre_hist = [g \in GenreNames |-> [met |-> 0, recommendations |-> 0, search |-> 0]]
  /\ ops = 0
  /\ lastop = NoOp
  /\ returned = <<>>
  /\ since = {}
  /\ p5 = 0

Init == InitWith({<<GENRE_SEEDS>>}, 1..MaxQuota)

\* --------------------------------------------------------- Scraper.run
\* asyncio.Queue.put on the unbounded work queue
QueueAppend(q, item) == Append(q, item)

\* The task is cancelled where it is suspended: CancelledError is raised in
\* its await.  Inside process_one's try the finally block runs (task_done,
\* then the rate checks, whose awaits still run); elsewhere worker() returns.
Cancel(L, tot, rd) ==
  IF InFlight(L) THEN AfterTaskDone([L EXCEPT !.canc = TRUE], tot, rd)
  ELSE [Finished(L) EXCEPT !.pc = "cancelled"]

InFlightCount == Cardinality({w \in Workers : InFlight(wk[w])})

\* run() testing the work queue alone
MainLoopQueueOnly(q, psize, unf) == IF q = <<>> THEN "exit" ELSE "join"

\* run(): from the test of `while` to the next await.  "exit" leaves the loop.
MainLoop(q, psize, unf) ==
  IF psize = 0 /\ q = <<>> THEN "exit"
  ELSE IF q = <<>> THEN "flush"
  ELSE "join"

\* run(): `await self._queue.join()` after flush_path_queues; join returns
\* at once when nothing is unfinished.
MainJoinOrLoop(q, psize, unf) ==
  IF unf > 0 THEN "join" ELSE MainLoop(q, psize, unf)

\* The end of a step of run(): nxt is where it stops, unf the unfinished
\* count there.  Leaving the loop cancels every worker.
\* woken are the tasks the step made ready.  run() gives up the head of the
\* FIFO when it waits in join(); after the cancellations the workers that
\* still have awaits of their finally block to run are the ready tasks.
MainSettle(nxt, unf, woken) ==
  /\ mpc' = IF nxt = "exit" THEN "done" ELSE nxt
  /\ mwoken' = FALSE
  /\ IF nxt = "exit"
       THEN /\ wk' = [w \in Workers |-> Cancel(wk[w], total, route_data)]
            /\ unfinished' = unf - InFlightCount
            /\ ready' = SelectSeq([w \in 1..NumWorkers |-> w], LAMBDA w : ~Suspends(wk'[w]))
            /\ getters' = <<>>
       ELSE /\ wk' = wk
            /\ unfinished' = unf
            /\ ready' = (IF nxt = "join" THEN Tail(ready) ELSE ready) \o woken

\* run(): the token is refreshed, the seeds are queued, the workers created.
Run ==
  /\ Running(Main)
  /\ mpc = "start"
  /\ queue' = seed
  /\ getters' = getters
  /\ MainSettle(MainLoop(seed, pq_size, Len(seed)), Len(seed), [w \in 1..NumWorkers |-> w])
  /\ UNCHANGED << config_vars, unit_vars, cache, total, rate_limit_hits, backoff_vars, builder_vars,
                  staging_vars, route_data, writer_vars, mout, faults, history_vars >>

\* run(): queue.join() returns.
MainJoin ==
  /\ Running(Main)
  /\ mpc = "join"
  /\ MainSettle(MainLoop(queue, pq_size, unfinished), unfinished, <<>>)
  /\ mpc' # "done" => getters' = getters
  /\ UNCHANGED << config_vars, unit_vars, cache, total, rate_limit_hits, backoff_vars, builder_vars,
                  queue, staging_vars, route_data, writer_vars, mout, faults, history_vars >>

\* run(): flush_path_queues, `endpoints = await self._path_queues.flush()`.
MainFlush ==
  /\ Running(Main)
  /\ mpc = "flush"
  /\ LET r == Flush(pq_priority, pq_queues, FlushNum)
         psize == pq_size - Len(r.output)
     IN  /\ pq_queues' = r.queues
         /\ pq_size' = psize
         /\ mout' = r.output
         /\ MainSettle(IF r.output # <<>> THEN "queue_put"
                       ELSE MainJoinOrLoop(queue, psize, unfinished), unfinished, <<>>)
         /\ mpc' # "done" => getters' = getters
  /\ UNCHANGED << config_vars, unit_vars, cache, total, rate_limit_hits, backoff_vars, builder_vars,
                  queue, pq_priority, route_data, writer_vars, faults, history_vars >>

\* run(): flush_path_queues, `await self._queue.put(endpoint)`.
MainPut ==
  /\ Running(Main)
  /\ mpc = "queue_put"
  /\ queue' = QueueAppend(queue, Head(mout))
  /\ mout' = Tail(mout)
  /\ getters' = OtherGetters(getters)
  /\ MainSettle(IF Tail(mout) # <<>> THEN "queue_put"
                ELSE MainJoinOrLoop(queue', pq_size, unfinished + 1), unfinished + 1,
                WokenGetter(getters))
  /\ UNCHANGED << config_vars, unit_vars, cache, total, rate_limit_hits, backoff_vars, builder_vars,
                  staging_vars, route_data, writer_vars, faults, history_vars >>

\* -------------------------------------------------- Scraper.process_one
\* `endpoint = await self._queue.get()`, the quota test of process_one and
\* the safety test of process_endpoint, up to `await get_backoff()`.
\* asyncio.Queue.get on an empty queue: the worker waits for a put.
GetWait(w) ==
  /\ Running(w)
  /\ wk[w].pc = "get"
  /\ queue = <<>>
  /\ ready' = Tail(ready)
  /\ getters' = Append(getters, w)
  /\ UNCHANGED << config_vars, unit_vars, cache, total, rate_limit_hits, backoff_vars, builder_vars,
                  queue, unfinished, staging_vars, route_data, writer_vars, main_vars, wk,
                  faults, history_vars >>

\* The response of a fetch, or the end of a sleep, arrives: the worker
\* suspended there is ready again.
Arrive(w) ==
  /\ wk[w].pc \in {"fetch", "sleep", "refresh"}
  /\ \A i \in 1..Len(ready) : ready[i] # w
  /\ ready' = Append(ready, w)
  /\ UNCHANGED << config_vars, unit_vars, cache, total, rate_limit_hits, backoff_vars, builder_vars,
                  queue, unfinished, staging_vars, route_data, writer_vars, main_vars, wk,
                  getters, faults, history_vars >>

Get(w) ==
  /\ Running(w)
  /\ wk[w].pc = "get"
  /\ queue # <<>>
  /\ queue' = Tail(queue)
  /\ LET L == [Idle EXCEPT !.ep = Head(queue), !.prevexc = Raised(wk[w]), !.tot0 = total]
     IN  Settle(w, [L EXCEPT !.pc = IF ~QuotaReached(total, quota) /\ ~(rate_limit_hits >= RATE_LIMIIT_SAFETY)
                                      THEN "get_backoff" ELSE "FIN"], total)
  /\ behind' = {p \in behind : p[1] # Head(queue)}
  /\ UNCHANGED << config_vars, unit_vars, cache, total, rate_limit_hits, backoff_vars, builder_vars,
                  staging_vars, writer_vars, mpc, mout, faults, add_calls, batch_adds,
                  emitted, genre_hist >>

\* 2 ** n
RECURSIVE Pow2(_)
Pow2(n) == IF n = 0 THEN 1 ELSE 2 * Pow2(n - 1)

\* get_backoff without the cut by the Retry-After suggestion.
GetBackoffJitterOnly(a, r, cap) ==
  IF a = 0 THEN {0} ELSE 0..Min(cap, BackoffBase * Pow2(a - 1))

\* BackoffPolicy.get_backoff: the values it can return (whole seconds of
\* uniform(0, min(cap, base * 2 ** (attempts - 1))), cut by retry_after).
GetBackoff(a, r, cap) ==
  IF a = 0 THEN {0}
  ELSE LET top == Min(cap, BackoffBase * Pow2(a - 1))
       IN  {IF r # NoSeconds THEN Min(r, jitter) ELSE jitter : jitter \in 0..top}

\* `wait_sec = await self._backoff_policy.get_backoff()`
Backoff(w) ==
  /\ Running(w)
  /\ wk[w].pc = "get_backoff"
  /\ \E wait_sec \in GetBackoff(attempts, retry_after, BackoffCap) :
       Settle(w, [wk[w] EXCEPT !.pc = IF wait_sec > 0 THEN "sleep" ELSE "fetch",
                               !.seen = attempts], total)
  /\ UNCHANGED << config_vars, unit_vars, cache, total, rate_limit_hits, backoff_vars, builder_vars,
                  queue, staging_vars, writer_vars, mpc, mout, faults, history_vars >>

\* `await asyncio.sleep(wait_sec)`
Sleep(w) ==
  /\ Running(w)
  /\ wk[w].pc = "sleep"
  /\ Settle(w, [wk[w] EXCEPT !.pc = "fetch"], total)
  /\ UNCHANGED << config_vars, unit_vars, cache, total, rate_limit_hits, backoff_vars, builder_vars,
                  queue, staging_vars, writer_vars, mpc, mout, faults, history_vars >>

\* process_albums: [artist for album in albums for artist in album.get('artists', [])]
RECURSIVE AlbumArtists(_)
AlbumArtists(albums) ==
  IF albums = <<>> THEN <<>> ELSE Head(albums).artists \o AlbumArtists(Tail(albums))

\* process_valid_endpoint: the dispatch on the path, up to the first await
\* of the route's handler.
Dispatch(L, data, tot, q) ==
  LET route == RouteOf(L.ep.path) IN
  IF route = "genre_seeds"
    THEN LoopGenres([L EXCEPT !.gl = data.genres, !.gaid = None], tot, q)
  ELSE IF route = "recommendations"
    THEN LoopArtists([L EXCEPT !.al = data.artists, !.phase = "tracks",
                               !.albs = data.albums,
                               !.alba = AlbumArtists(data.albums)], tot, q)
  ELSE IF route = "search"
    THEN LoopArtists([L EXCEPT !.al = data.artists, !.phase = "search",
                               !.next = data.next], tot, q)
  ELSE LoopArtists([L EXCEPT !.al = data.artists, !.phase = "plain"], tot, q)

\* `res = await self._sc.fetch(...)` returning a success.
FetchOK(w) ==
  /\ Running(w)
  /\ wk[w].pc = "fetch"
  /\ Settle(w, Dispatch([wk[w] EXCEPT !.disp = @ + 1], Response(wk[w].ep), total, quota), total)
  /\ UNCHANGED << config_vars, unit_vars, cache, total, rate_limit_hits, backoff_vars, builder_vars,
                  queue, staging_vars, writer_vars, mpc, mout, faults, history_vars >>

\* ----------------------------------------------- Scraper.process_artists
\* process_artists that writes a complete artist whatever the cache holds
BranchWritingAgain(cache_val, missing_data) ==
  IF missing_data /\ cache_val \in {"1", "2"} THEN "continue"
  ELSE IF missing_data THEN "batch"
  ELSE "write"

\* process_artists that batches an incomplete artist that is WRITTEN
BranchBatchingWritten(cache_val, missing_data) ==
  IF ~missing_data /\ cache_val = "2" THEN "continue"
  ELSE IF missing_data /\ cache_val = "1" THEN "continue"
  ELSE IF missing_data THEN "batch"
  ELSE "write"

\* process_artists that batches an incomplete artist that is BATCHED
BranchBatchingAgain(cache_val, missing_data) ==
  IF cache_val = "2" THEN "continue"
  ELSE IF missing_data THEN "batch"
  ELSE "write"

\* process_artists: the tests on cache_val and missing_data
Branch(cache_val, missing_data) ==
  IF cache_val = "2" THEN "continue"
  ELSE IF missing_data /\ cache_val = "1" THEN "continue"
  ELSE IF missing_data THEN "batch"
  ELSE "write"

\* `cache_val = await self._cache.get(artist_id)` and the tests on it.
CacheGet(w) ==
  /\ Running(w)
  /\ wk[w].pc = "cache_get"
  /\ LET L == wk[w]
         artist == Head(L.al)
         cache_val == cache[artist.id]
         missing_data == ~artist.full
         branch == Branch(cache_val, missing_data)
     IN  Settle(w, IF branch = "continue" THEN NextArtist(L, total, quota)
                   ELSE IF branch = "batch" THEN [L EXCEPT !.pc = "cache_set_batched"]
                   ELSE [L EXCEPT !.pc = "writer_add"], total)
  /\ UNCHANGED << config_vars, unit_vars, cache, total, rate_limit_hits, backoff_vars, builder_vars,
                  queue, staging_vars, writer_vars, mpc, mout, faults, history_vars >>

\* `await self._cache.set(artist_id, b'1')`
CacheSetBatched(w) ==
  /\ Running(w)
  /\ wk[w].pc = "cache_set_batched"
  /\ cache' = [cache EXCEPT ![Head(wk[w].al).id] = "1"]
  /\ Settle(w, [wk[w] EXCEPT !.pc = "builder_add"], total)
  /\ UNCHANGED << config_vars, unit_vars, total, rate_limit_hits, backoff_vars, builder_vars,
                  queue, staging_vars, writer_vars, mpc, mout, faults, history_vars >>

\* BatchReqBuilder.add
BuilderAdd(s, n, elt_id) ==
  IF elt_id \in s THEN [ids |-> s, num_ids |-> n]
  ELSE [ids |-> s \cup {elt_id}, num_ids |-> n + 1]

\* ",".join(ids): the ids of the set, each once, in the set's iteration order
Join(s) == SetToSeq(s)

\* build() that returns the ids and forgets to start a new pending set
BuilderBuildKeeping(s, n) == [ret |-> Join(s), ids |-> s, num_ids |-> n]

\* BatchReqBuilder.build: the string returned and the builder afterwards
BuilderBuild(s, n) == [ret |-> Join(s), ids |-> {}, num_ids |-> 0]

\* is_full answering one id late
IsFullLate(n, size) == n > size

\* BatchReqBuilder.is_full
IsFull(n, size) == n >= size

\* `await self._batch_artist_req_builder.add(artist_id)`
AddStep(w) ==
  /\ Running(w)
  /\ wk[w].pc = "builder_add"
  /\ LET id == Head(wk[w].al).id
         b == BuilderAdd(ids, num_ids, id)
     IN  /\ ids' = b.ids
         /\ num_ids' = b.num_ids
         /\ batch_adds' = [batch_adds EXCEPT ![id] = @ + 1]
  /\ Settle(w, [wk[w] EXCEPT !.pc = "is_full", !.batched = @ + 1], total)
  /\ UNCHANGED << config_vars, unit_vars, cache, total, rate_limit_hits, backoff_vars,
                  queue, staging_vars, writer_vars, mpc, mout, faults, add_calls, emitted,
                  behind, genre_hist >>

\* `if await self._batch_artist_req_builder.is_full()`
IsFullStep(w) ==
  /\ Running(w)
  /\ wk[w].pc = "is_full"
  /\ Settle(w, IF IsFull(num_ids, BatchSize) THEN [wk[w] EXCEPT !.pc = "build"]
               ELSE NextArtist(wk[w], total, quota), total)
  /\ UNCHANGED << config_vars, unit_vars, cache, total, rate_limit_hits, backoff_vars, builder_vars,
                  queue, staging_vars, writer_vars, mpc, mout, faults, history_vars >>

\* `await self._batch_artist_req_builder.build()`: the ids of the request
BuildStep(w) ==
  /\ Running(w)
  /\ wk[w].pc = "build"
  /\ LET b == BuilderBuild(ids, num_ids)
     IN  /\ ids' = b.ids
         /\ num_ids' = b.num_ids
         /\ Settle(w, [wk[w] EXCEPT !.pc = "put_artists", !.built = b.ret], total)
  /\ UNCHANGED << config_vars, unit_vars, cache, total, rate_limit_hits, backoff_vars,
                  queue, staging_vars, writer_vars, mpc, mout, faults, history_vars >>

\* The endpoints in the staging queues.
Staged == UNION {Range(pq_queues[r]) : r \in Routes}

\* `await self._path_queues.put('artists', {'path': '/artists', ...})`
PutArtists(w) ==
  /\ Running(w)
  /\ wk[w].pc = "put_artists"
  /\ pq_queues' = Put(pq_queues, "artists", ArtistsEP(wk[w].built))
  /\ pq_size' = pq_size + 1
  /\ emitted' = Append(emitted, wk[w].built)
  /\ behind' = behind \cup ({ArtistsEP(wk[w].built)} \X (Staged \cup Range(queue)))
  /\ Settle(w, NextArtist([wk[w] EXCEPT !.built = <<>>], total, quota), total)
  /\ UNCHANGED << config_vars, unit_vars, cache, total, rate_limit_hits, backoff_vars, builder_vars,
                  queue, pq_priority, writer_vars, mpc, mout, faults, add_calls, batch_adds, genre_hist >>

\* ArtistsWriter.add: the buffer and the file afterwards
WriterAdd(buf, f, id) ==
  LET b == IF \E i \in 1..Len(buf) : buf[i] = id THEN buf ELSE Append(buf, id)
  IN  IF Len(b) >= LIMIT THEN [artists |-> <<>>, file |-> f \o b]
      ELSE [artists |-> b, file |-> f]

\* `await self._artists_writer.add(id=artist_id, ...)`
WriterAddStep(w) ==
  /\ Running(w)
  /\ wk[w].pc = "writer_add"
  /\ LET id == Head(wk[w].al).id
         r == WriterAdd(artists, file, id)
     IN  /\ artists' = r.artists
         /\ file' = r.file
         /\ add_calls' = [add_calls EXCEPT ![id] = @ + 1]
  /\ Settle(w, [wk[w] EXCEPT !.pc = "cache_set_added", !.added = @ + 1], total)
  /\ UNCHANGED << config_vars, unit_vars, cache, total, rate_limit_hits, backoff_vars, builder_vars,
                  queue, staging_vars, mpc, mout, faults, batch_adds, emitted, behind, genre_hist >>

\* `await self._cache.set(artist_id, b'2')`, `self._total += 1` and the
\* quota test after it.
CacheSetAdded(w) ==
  /\ Running(w)
  /\ wk[w].pc = "cache_set_added"
  /\ cache' = [cache EXCEPT ![Head(wk[w].al).id] = "2"]
  /\ total' = total + 1
  /\ Settle(w, IF QuotaReached(total + 1, quota)
                 THEN LoopArtists([wk[w] EXCEPT !.al = <<>>], total + 1, quota)
                 ELSE [wk[w] EXCEPT !.pc = "put_related"], total + 1)
  /\ UNCHANGED << config_vars, unit_vars, rate_limit_hits, backoff_vars, builder_vars,
                  queue, staging_vars, writer_vars, mpc, mout, faults, history_vars >>

\* `await self._path_queues.put('artist_related_artists', ...)`, then
\* process_genres(genres, artist_id) up to its first await.
PutRelated(w) ==
  /\ Running(w)
  /\ wk[w].pc = "put_related"
  /\ LET id == Head(wk[w].al).id
     IN  /\ pq_queues' = Put(pq_queues, "artist_related_artists", RelatedEP(id))
         /\ Settle(w, LoopGenres([wk[w] EXCEPT !.gl = GenresOf(id), !.gaid = id],
                                 total, quota), total)
  /\ pq_size' = pq_size + 1
  /\ UNCHANGED << config_vars, unit_vars, cache, total, rate_limit_hits, backoff_vars, builder_vars,
                  queue, pq_priority, writer_vars, mpc, mout, faults, history_vars >>

\* ------------------------------------------------ Scraper.process_genres
\* process_genres expanding a genre whatever the cache holds
ExistsNever(c, key) == FALSE

\* Cache.exists
Exists(c, key) == c[key] # "absent"

\* `if await self._cache.exists(genre): continue`
CacheExists(w) ==
  /\ Running(w)
  /\ wk[w].pc = "cache_exists"
  /\ genre_hist' = [genre_hist EXCEPT ![Head(wk[w].gl)].met = @ + 1]
  /\ Settle(w, IF Exists(cache, Head(wk[w].gl))
                 THEN LoopGenres([wk[w] EXCEPT !.gl = Tail(@)], total, quota)
                 ELSE [wk[w] EXCEPT !.pc = "put_recommendations"], total)
  /\ UNCHANGED << config_vars, unit_vars, cache, total, rate_limit_hits, backoff_vars, builder_vars,
                  queue, staging_vars, writer_vars, mpc, mout, faults, add_calls, batch_adds,
                  emitted, behind >>

\* `await self._path_queues.put('recommendations', ...)`
PutRecommendations(w) ==
  /\ Running(w)
  /\ wk[w].pc = "put_recommendations"
  /\ pq_queues' = Put(pq_queues, "recommendations",
                      RecommendationsEP(Head(wk[w].gl), wk[w].gaid))
  /\ pq_size' = pq_size + 1
  /\ genre_hist' = [genre_hist EXCEPT ![Head(wk[w].gl)].recommendations = @ + 1]
  /\ Settle(w, [wk[w] EXCEPT !.pc = "put_search"], total)
  /\ UNCHANGED << config_vars, unit_vars, cache, total, rate_limit_hits, backoff_vars, builder_vars,
                  queue, pq_priority, writer_vars, mpc, mout, faults, add_calls, batch_adds,
                  emitted, behind >>

\* `await self._path_queues.put('search', ...)`
PutSearch(w) ==
  /\ Running(w)
  /\ wk[w].pc = "put_search"
  /\ pq_queues' = Put(pq_queues, "search", SearchEP(Head(wk[w].gl)))
  /\ pq_size' = pq_size + 1
  /\ genre_hist' = [genre_hist EXCEPT ![Head(wk[w].gl)].search = @ + 1]
  /\ Settle(w, [wk[w] EXCEPT !.pc = "cache_set_genre"], total)
  /\ UNCHANGED << config_vars, unit_vars, cache, total, rate_limit_hits, backoff_vars, builder_vars,
                  queue, pq_priority, writer_vars, mpc, mout, faults, add_calls, batch_adds,
                  emitted, behind >>

\* `await self._cache.set(genre, b'1')`
CacheSetGenre(w) ==
  /\ Running(w)
  /\ wk[w].pc = "cache_set_genre"
  /\ cache' = [cache EXCEPT ![Head(wk[w].gl)] = "1"]
  /\ Settle(w, LoopGenres([wk[w] EXCEPT !.gl = Tail(@)], total, quota), total)
  /\ UNCHANGED << config_vars, unit_vars, total, rate_limit_hits, backoff_vars, builder_vars,
                  queue, staging_vars, writer_vars, mpc, mout, faults, history_vars >>

\* ------------------------------------------------ Scraper.process_albums
\* `if await self._cache.exists(album['id']): continue`
AlbumExists(w) ==
  /\ Running(w)
  /\ wk[w].pc = "album_exists"
  /\ Settle(w, IF cache[Head(wk[w].albs).id] # "absent"
                 THEN LoopAlbums([wk[w] EXCEPT !.albs = Tail(@)], total, quota)
                 ELSE [wk[w] EXCEPT !.pc = "cache_set_album"], total)
  /\ UNCHANGED << config_vars, unit_vars, cache, total, rate_limit_hits, backoff_vars, builder_vars,
                  queue, staging_vars, writer_vars, mpc, mout, faults, history_vars >>

\* `await self._cache.set(album['id'], b'1')`
CacheSetAlbum(w) ==
  /\ Running(w)
  /\ wk[w].pc = "cache_set_album"
  /\ cache' = [cache EXCEPT ![Head(wk[w].albs).id] = "1"]
  /\ Settle(w, LoopAlbums([wk[w] EXCEPT !.albs = Tail(@)], total, quota), total)
  /\ UNCHANGED << config_vars, unit_vars, total, rate_limit_hits, backoff_vars, builder_vars,
                  queue, staging_vars, writer_vars, mpc, mout, faults, history_vars >>

\* ------------------------------------------------ Scraper.process_search
\* `await self._path_queues.put('search', {'path': path, 'params': None})`
PutNext(w) ==
  /\ Running(w)
  /\ wk[w].pc = "put_next"
  /\ pq_queues' = Put(pq_queues, "search", wk[w].next)
  /\ pq_size' = pq_size + 1
  /\ Settle(w, ValidDone(wk[w]), total)
  /\ UNCHANGED << config_vars, unit_vars, cache, total, rate_limit_hits, backoff_vars, builder_vars,
                  queue, pq_priority, writer_vars, mpc, mout, faults, history_vars >>

\* ------------------------------------- process_one: the finally block
\* sort_path_queues: `await self._path_queues.set_priority(scores)`
SortPathQueues(w) ==
  /\ Running(w)
  /\ wk[w].pc = "set_priority"
  /\ pq_priority' = SetPriority(wk[w].scores)
  /\ Settle(w, AfterSort(wk[w], total), total)
  /\ UNCHANGED << config_vars, unit_vars, cache, total, rate_limit_hits, backoff_vars, builder_vars,
                  queue, pq_queues, pq_size, writer_vars, mpc, mout, faults, history_vars >>

\* flush_path_queues: `endpoints = await self._path_queues.flush()`
FlushPathQueues(w) ==
  /\ Running(w)
  /\ wk[w].pc = "flush"
  /\ LET r == Flush(pq_priority, pq_queues, FlushNum)
     IN  /\ pq_queues' = r.queues
         /\ pq_size' = pq_size - Len(r.output)
         /\ Settle(w, IF r.output = <<>> THEN LoopBack(wk[w])
                      ELSE [wk[w] EXCEPT !.pc = "queue_put", !.out = r.output], total)
  /\ UNCHANGED << config_vars, unit_vars, cache, total, rate_limit_hits, backoff_vars, builder_vars,
                  queue, pq_priority, writer_vars, mpc, mout, faults, history_vars >>

\* flush_path_queues: `await self._queue.put(endpoint)`
QueuePut(w) ==
  /\ Running(w)
  /\ wk[w].pc = "queue_put"
  /\ queue' = QueueAppend(queue, Head(wk[w].out))
  /\ unfinished' = unfinished + 1
  /\ wk' = [wk EXCEPT ![w] = IF Tail(wk[w].out) = <<>> THEN LoopBack(wk[w])
                             ELSE [wk[w] EXCEPT !.out = Tail(wk[w].out)]]
  /\ ready' = Yield(ready, wk'[w]) \o WokenGetter(getters)
  /\ getters' = OtherGetters(getters)
  /\ UNCHANGED << config_vars, unit_vars, cache, total, rate_limit_hits, backoff_vars, builder_vars,
                  staging_vars, route_data, writer_vars, main_vars, faults, history_vars >>

\* ------------------------------------ process_endpoint: a 429 response
\* The Retry-After headers a 429 response can carry (NoSeconds: no header).
RetryAfterValues == {1, 2}

\* `res = await self._sc.fetch(...)` returning status 429 with the header
\* retry_after_header: SpotifyClient.fetch sets data['retry_after'] only when
\* the header is there, and process_endpoint's res['data']['retry_after']
\* raises KeyError when it is not (caught by process_one).
Fetch429(w) ==
  /\ Running(w)
  /\ wk[w].pc = "fetch"
  /\ faults < MaxFaults
  /\ faults' = faults + 1
  /\ rate_limit_hits' = rate_limit_hits + 1
  /\ \E retry_after_header \in RetryAfterValues \cup {NoSeconds} :
       Settle(w, [wk[w] EXCEPT !.hit = TRUE, !.hdr = retry_after_header, !.hits = 1,
                               !.ra = retry_after_header,
                               !.pc = IF retry_after_header = NoSeconds THEN "FIN"
                                      ELSE "set_retry_after"], total)
  /\ UNCHANGED << config_vars, unit_vars, cache, total, backoff_vars, builder_vars,
                  queue, staging_vars, writer_vars, mpc, mout, history_vars >>

\* set_retry_after keeping the latest suggestion
SetRetryAfterLatest(cur, r) == r

\* BackoffPolicy.set_retry_after
SetRetryAfter(cur, r) == IF cur = NoSeconds \/ r < cur THEN r ELSE cur

\* `await self._backoff_policy.set_retry_after(retry_after)`
SetRetryAfterStep(w) ==
  /\ Running(w)
  /\ wk[w].pc = "set_retry_after"
  /\ retry_after' = SetRetryAfter(retry_after, wk[w].ra)
  /\ Settle(w, [wk[w] EXCEPT !.pc = "incr_attempts", !.ra = NoSeconds], total)
  /\ UNCHANGED << config_vars, unit_vars, cache, total, rate_limit_hits, attempts, builder_vars,
                  queue, staging_vars, writer_vars, mpc, mout, faults, history_vars >>

\* `await self._backoff_policy.incr_attempts()`
IncrAttempts(w) ==
  /\ Running(w)
  /\ wk[w].pc = "incr_attempts"
  /\ attempts' = attempts + 1
  /\ Settle(w, [wk[w] EXCEPT !.pc = "requeue", !.incd = @ + 1], total)
  /\ UNCHANGED << config_vars, unit_vars, cache, total, rate_limit_hits, retry_after, builder_vars,
                  queue, staging_vars, writer_vars, mpc, mout, faults, history_vars >>

\* `await self._queue.put(endpoint)`: the endpoint is put back, and
\* process_endpoint returns.
Requeue(w) ==
  /\ Running(w)
  /\ wk[w].pc = "requeue"
  /\ queue' = QueueAppend(queue, wk[w].ep)
  /\ LET L == [wk[w] EXCEPT !.pc = "FIN", !.reinj = @ + 1]
     IN  /\ route_data' = route_data
         /\ unfinished' = unfinished
         /\ mwoken' = mwoken
         /\ wk' = [wk EXCEPT ![w] = AfterTaskDone(L, total, route_data)]
         /\ ready' = Yield(ready, wk'[w]) \o WokenGetter(getters)
         /\ getters' = OtherGetters(getters)
  /\ UNCHANGED << config_vars, unit_vars, cache, total, rate_limit_hits, backoff_vars, builder_vars,
                  staging_vars, writer_vars, mpc, mout, faults, history_vars >>

\* ------------------------- process_endpoint: the other failed fetches
\* `res = await self._sc.fetch(...)` returning None: SpotifyClient.fetch
\* caught asyncio.TimeoutError or aiohttp.ClientError.  process_endpoint
\* goes on to `await self._queue.put(endpoint)`.
FetchNone(w) ==
  /\ Running(w)
  /\ wk[w].pc = "fetch"
  /\ faults < MaxFaults
  /\ faults' = faults + 1
  /\ Settle(w, [wk[w] EXCEPT !.tf = "transport", !.pc = "requeue"], total)
  /\ UNCHANGED << config_vars, unit_vars, cache, total, rate_limit_hits, backoff_vars, builder_vars,
                  queue, staging_vars, writer_vars, mpc, mout, history_vars >>

\* `res = await self._sc.fetch(...)` returning a 5xx status: fetch returns
\* {'status': status, 'data': data} with the error body, none of the
\* status tests of process_endpoint matches, and the else branch calls
\* process_valid_endpoint.  The handler of the route reads a key the error
\* body does not have (data['genres'], data['tracks'], data['artists'];
\* process_search indexes the default [] with 'items') and raises before
\* it changes anything; process_one catches the exception.
Fetch5xx(w) ==
  /\ Running(w)
  /\ wk[w].pc = "fetch"
  /\ faults < MaxFaults
  /\ faults' = faults + 1
  /\ Settle(w, [wk[w] EXCEPT !.tf = "5xx", !.disp = @ + 1, !.pc = "FIN"], total)
  /\ UNCHANGED << config_vars, unit_vars, cache, total, rate_limit_hits, backoff_vars, builder_vars,
                  queue, staging_vars, writer_vars, mpc, mout, history_vars >>

\* ------------------------------------------------------------ the system
WorkerStep(w) ==
  \/ Get(w) \/ GetWait(w) \/ Arrive(w) \/ Backoff(w) \/ FetchOK(w)
  \/ CacheGet(w) \/ CacheSetBatched(w) \/ AddStep(w) \/ IsFullStep(w) \/ BuildStep(w)
  \/ PutArtists(w) \/ WriterAddStep(w) \/ CacheSetAdded(w) \/ PutRelated(w)
  \/ CacheExists(w) \/ PutRecommendations(w) \/ PutSearch(w) \/ CacheSetGenre(w)
  \/ AlbumExists(w) \/ CacheSetAlbum(w) \/ PutNext(w)
  \/ SortPathQueues(w) \/ FlushPathQueues(w) \/ QueuePut(w)

Next ==
  \/ Run \/ MainJoin \/ MainFlush \/ MainPut
  \/ \E w \in Workers : WorkerStep(w)

Spec == Init /\ [][Next]_vars

\* The crawl on an event loop that keeps running: run() and every worker
\* take the step they are ready for, and every pending fetch completes.
MainStep == Run \/ MainJoin \/ MainFlush \/ MainPut

SpecLive ==
  /\ Init /\ [][Next]_vars
  /\ WF_vars(MainStep)
  /\ \A w \in Workers : WF_vars(WorkerStep(w))

\* `res = await self._sc.fetch(...)` returning status 401: process_endpoint
\* awaits refresh_access_token, which suspends in its own fetch.
Fetch401(w) ==
  /\ Running(w)
  /\ wk[w].pc = "fetch"
  /\ faults < MaxFaults
  /\ faults' = faults + 1
  /\ Settle(w, [wk[w] EXCEPT !.auth = "401", !.pc = "refresh"], total)
  /\ UNCHANGED << config_vars, unit_vars, cache, total, rate_limit_hits, backoff_vars, builder_vars,
                  queue, staging_vars, writer_vars, mpc, mout, history_vars >>

\* refresh_access_token after its fetch: the token is stored and the
\* endpoint goes back on the work queue, or the fetch returned None and
\* refresh_access_token raises (caught by process_one).
Refresh(w) ==
  /\ Running(w)
  /\ wk[w].pc = "refresh"
  /\ \E refreshed \in BOOLEAN :
       Settle(w, IF refreshed THEN [wk[w] EXCEPT !.pc = "requeue"]
                 ELSE [wk[w] EXCEPT !.auth = "refresh failed", !.pc = "FIN"], total)
  /\ UNCHANGED << config_vars, unit_vars, cache, total, rate_limit_hits, backoff_vars, builder_vars,
                  queue, staging_vars, writer_vars, mpc, mout, faults, history_vars >>

\* `res = await self._sc.fetch(...)` returning status 403: a message is
\* printed and process_endpoint returns.
Fetch403(w) ==
  /\ Running(w)
  /\ wk[w].pc = "fetch"
  /\ faults < MaxFaults
  /\ faults' = faults + 1
  /\ Settle(w, [wk[w] EXCEPT !.auth = "403", !.pc = "FIN"], total)
  /\ UNCHANGED << config_vars, unit_vars, cache, total, rate_limit_hits, backoff_vars, builder_vars,
                  queue, staging_vars, writer_vars, mpc, mout, history_vars >>

\* `res = await self._sc.fetch(...)` returning a success whose list of
\* artists has a malformed item in front of its well-formed items.
MalformedItems == {NullItem, NoIdItem}

FetchOKMalformed(w) ==
  /\ Running(w)
  /\ wk[w].pc = "fetch"
  /\ faults < MaxFaults
  /\ faults' = faults + 1
  /\ Response(wk[w].ep).artists # <<>>
  /\ \E item \in MalformedItems :
       LET data == [Response(wk[w].ep) EXCEPT !.artists = <<item>> \o @]
       IN  Settle(w, Dispatch([wk[w] EXCEPT !.disp = @ + 1], data, total, quota), total)
  /\ UNCHANGED << config_vars, unit_vars, cache, total, rate_limit_hits, backoff_vars, builder_vars,
                  queue, staging_vars, writer_vars, mpc, mout, history_vars >>

\* The crawl with failed fetches among the fetches: every step of the crawl,
\* and the steps the failures lead to (the branches of process_endpoint on
\* the response, and the sleep get_backoff asks for after a 429).
FaultStep(w) ==
  \/ Sleep(w) \/ Fetch429(w) \/ SetRetryAfterStep(w) \/ IncrAttempts(w) \/ Requeue(w)
  \/ FetchNone(w) \/ Fetch5xx(w) \/ Fetch401(w) \/ Refresh(w) \/ Fetch403(w)
  \/ FetchOKMalformed(w)

NextFaults ==
  \/ Next
  \/ \E w \in Workers : FaultStep(w)

\* The run of main() with the largest quota.
InitFaults == InitWith({<<GENRE_SEEDS>>}, {MaxQuota})

SpecFaults == InitFaults /\ [][NextFaults]_vars

\* ------------------------------------------- BatchReqBuilder driven alone
\* Concurrent callers of one coalescer: each call runs under the builder's
\* lock, so the calls take effect one at a time, in any order.
rest_of_builder ==
  << config_vars, cache, total, rate_limit_hits, backoff_vars, queue, unfinished,
     staging_vars, route_data, writer_vars, main_vars, wk, sched_vars, faults, add_calls,
     behind, p5 >>

CoalescerAdd ==
  /\ ops < MaxOps
  /\ \E elt_id \in ArtistIds :
       LET b == BuilderAdd(ids, num_ids, elt_id)
       IN  /\ ids' = b.ids
           /\ num_ids' = b.num_ids
           /\ batch_adds' = [batch_adds EXCEPT ![elt_id] = @ + 1]
           /\ since' = since \cup {elt_id}
           /\ lastop' = [op |-> "add", arg |-> elt_id, n |-> 0, scores |-> NoScores]
  /\ ops' = ops + 1
  /\ UNCHANGED << rest_of_builder, emitted, returned, genre_hist >>

CoalescerIsFull ==
  /\ ops < MaxOps
  /\ lastop' = [op |-> "is_full", arg |-> None, n |-> IF IsFull(num_ids, BatchSize) THEN 1 ELSE 0, scores |-> NoScores]
  /\ ops' = ops + 1
  /\ UNCHANGED << rest_of_builder, builder_vars, batch_adds, emitted, returned, since, genre_hist >>

CoalescerBuild ==
  /\ ops < MaxOps
  /\ LET b == BuilderBuild(ids, num_ids)
     IN  /\ ids' = b.ids
         /\ num_ids' = b.num_ids
         /\ returned' = b.ret
         /\ emitted' = Append(emitted, b.ret)
  /\ since' = {}
  /\ lastop' = [op |-> "build", arg |-> None, n |-> 0, scores |-> NoScores]
  /\ ops' = ops + 1
  /\ UNCHANGED << rest_of_builder, batch_adds, genre_hist >>

NextCoalescer == CoalescerAdd \/ CoalescerIsFull \/ CoalescerBuild

SpecCoalescer == Init /\ [][NextCoalescer]_vars

\* ---------------------------------------------- BackoffPolicy driven alone
\* Calls of incr_attempts, set_retry_after(r) and get_backoff() on one
\* BackoffPolicy, in any order; each call runs under the policy's lock.
\* get_backoff is computed for the policy's cap and for smaller caps, whose
\* cut is reached within MaxAttempts attempts.
CapChoices == {1, 2, 10, BackoffCap}

rest_of_backoff ==
  << config_vars, cache, total, rate_limit_hits, builder_vars, queue, unfinished,
     staging_vars, route_data, writer_vars, main_vars, wk, sched_vars, faults,
     history_vars, ops, returned, since, p5 >>

PolicyIncrAttempts ==
  /\ attempts < MaxAttempts
  /\ attempts' = attempts + 1
  /\ lastop' = [op |-> "incr_attempts", arg |-> None, n |-> 0, scores |-> NoScores]
  /\ UNCHANGED << rest_of_backoff, retry_after >>

PolicySetRetryAfter ==
  /\ \E r \in 0..MaxRetryAfter :
       /\ retry_after' = SetRetryAfter(retry_after, r)
       /\ lastop' = [op |-> "set_retry_after", arg |-> r, n |-> 0, scores |-> NoScores]
  /\ UNCHANGED << rest_of_backoff, attempts >>

PolicyGetBackoff ==
  /\ \E cap \in CapChoices :
       \E wait_sec \in GetBackoff(attempts, retry_after, cap) :
         lastop' = [op |-> "get_backoff", arg |-> cap, n |-> wait_sec, scores |-> NoScores]
  /\ UNCHANGED << rest_of_backoff, backoff_vars >>

NextBackoff == PolicyIncrAttempts \/ PolicySetRetryAfter \/ PolicyGetBackoff

SpecBackoff == Init /\ [][NextBackoff]_vars

\* ------------------------------------------------ PathQueues driven alone
\* Calls of put, set_priority and flush(num) on one PathQueues, in any
\* order.  The item a put stages is named by the number of the call.
RouteA == "search"
RouteB == "artists"
PutRoutes == {RouteA, RouteB, "genre_seeds"}

Whole(n) == [num |-> n, den |-> 1]

\* The score dicts handed to set_priority: {A: 2, B: 1}, {A: 1, B: 2}, and
\* the scores of untouched metrics over all routes (all equal).
ScoreChoices ==
  {[keys |-> <<RouteA, RouteB>>, val |-> (RouteA :> Whole(a)) @@ (RouteB :> Whole(3 - a))] :
     a \in 1..2}
  \cup {Scores(NoRouteData)}

P5Scores == [keys |-> <<RouteA, RouteB>>, val |-> (RouteA :> Whole(2)) @@ (RouteB :> Whole(1))]

\* The P5 scenario: set_priority({A:2, B:1}), put(A, x), put(B, y),
\* put(A, z), flush(2), flush(1).  p5 counts the calls made while the run
\* is this scenario, and is -1 once it is not.
P5Call(k) ==
  IF k = 1 THEN [op |-> "set_priority", arg |-> None, n |-> 0, scores |-> P5Scores]
  ELSE IF k = 2 THEN [op |-> "put", arg |-> RouteA, n |-> 2, scores |-> NoScores]
  ELSE IF k = 3 THEN [op |-> "put", arg |-> RouteB, n |-> 3, scores |-> NoScores]
  ELSE IF k = 4 THEN [op |-> "put", arg |-> RouteA, n |-> 4, scores |-> NoScores]
  ELSE IF k = 5 THEN [op |-> "flush", arg |-> None, n |-> 2, scores |-> NoScores]
  ELSE [op |-> "flush", arg |-> None, n |-> 1, scores |-> NoScores]

SameCall(c, d) ==
  /\ c.op = d.op
  /\ c.arg = d.arg
  /\ c.n = d.n
  /\ c.scores.keys = d.scores.keys
  /\ \A i \in 1..Len(c.scores.keys) : c.scores.val[c.scores.keys[i]] = d.scores.val[c.scores.keys[i]]

P5Step(call) ==
  IF p5 >= 0 /\ p5 < 6 /\ SameCall(call, P5Call(p5 + 1)) THEN p5 + 1 ELSE -1

rest_of_staging ==
  << config_vars, cache, total, rate_limit_hits, backoff_vars, builder_vars, queue,
     unfinished, route_data, writer_vars, main_vars, wk, sched_vars, faults, history_vars,
     since >>

StagingPut ==
  /\ ops < MaxCalls
  /\ \E path_key \in PutRoutes :
       /\ pq_queues' = Put(pq_queues, path_key, ops + 1)
       /\ lastop' = [op |-> "put", arg |-> path_key, n |-> ops + 1, scores |-> NoScores]
       /\ p5' = P5Step(lastop')
  /\ pq_size' = pq_size + 1
  /\ ops' = ops + 1
  /\ UNCHANGED << rest_of_staging, pq_priority, returned >>

StagingSetPriority ==
  /\ ops < MaxCalls
  /\ \E scores \in ScoreChoices :
       /\ pq_priority' = SetPriority(scores)
       /\ lastop' = [op |-> "set_priority", arg |-> None, n |-> 0, scores |-> scores]
       /\ p5' = P5Step(lastop')
  /\ ops' = ops + 1
  /\ UNCHANGED << rest_of_staging, pq_queues, pq_size, returned >>

StagingFlush ==
  /\ ops < MaxCalls
  /\ \E num \in 1..MaxFlush :
       LET r == Flush(pq_priority, pq_queues, num)
       IN  /\ pq_queues' = r.queues
           /\ pq_size' = pq_size - Len(r.output)
           /\ returned' = r.output
           /\ lastop' = [op |-> "flush", arg |-> None, n |-> num, scores |-> NoScores]
           /\ p5' = P5Step(lastop')
  /\ ops' = ops + 1
  /\ UNCHANGED << rest_of_staging, pq_priority >>

NextStaging == StagingPut \/ StagingSetPriority \/ StagingFlush

SpecStaging == Init /\ [][NextStaging]_vars

\* ================================================================ claims
Rank(v) == IF v = "absent" THEN 0 ELSE IF v = "1" THEN 1 ELSE 2

\* The artist a worker suspended in process_artists is working on.
InArtistLoop(L) ==
  L.pc \in {"cache_get", "cache_set_batched", "builder_add", "is_full", "build",
            "put_artists", "writer_add", "cache_set_added", "put_related"}

CurrentArtist(L) == IF InArtistLoop(L) /\ L.al # <<>> THEN Head(L.al).id ELSE None

RECURSIVE SumOver(_, _)
SumOver(f, S) ==
  IF S = {} THEN 0
  ELSE LET x == CHOOSE y \in S : TRUE IN f[x] + SumOver(f, S \ {x})

\* The workers between ArtistsWriter.add and `self._total += 1`.
Adding == {w \in Workers : wk[w].pc = "cache_set_added"}

\* C1: total never exceeds the quota, and neither does the number of
\* ArtistsWriter.add calls, which total equals but for the worker that has
\* added and not yet counted; once the quota is reached the cache entry of
\* no artist changes, so the complete artists a response carries beyond
\* the quota stay as they were (absent when never seen before).
C1_QuotaNeverExceeded ==
  /\ [](total <= quota)
  /\ [](SumOver(add_calls, ArtistIds) <= quota)
  /\ [](SumOver(add_calls, ArtistIds) = total + Cardinality(Adding))
  /\ [][total >= quota => \A a \in ArtistIds : cache'[a] = cache[a]]_vars

\* With quota 1 the first search page, which carries a1 and a4 complete and
\* both new, has been handled: a1 is written and a4 is still absent.
C1_Witness ==
  /\ quota = 1 /\ total = 1
  /\ route_data["search"].calls = 1 /\ route_data["search"].added = 1
  /\ add_calls["a1"] = 1 /\ cache["a1"] = "2"
  /\ add_calls["a4"] = 0 /\ cache["a4"] = "absent"

\* The rows of artist a in the writer's buffer and in the file.
Rows(a) ==
  Cardinality({i \in 1..Len(artists) : artists[i] = a})
    + Cardinality({i \in 1..Len(file) : file[i] = a})

\* C2: every artist id is appended to the writer at most once and has at
\* most one row; an id that is appended and not yet WRITTEN is the current
\* artist of the one worker between the append and the cache write, and no
\* worker stands at the cache read of that id; when the run is over every
\* appended id is WRITTEN.
C2_AtMostOnceWrite ==
  /\ \A a \in ArtistIds : add_calls[a] <= 1 /\ Rows(a) = add_calls[a]
  /\ \A a \in ArtistIds :
       (add_calls[a] = 1 /\ cache[a] # "2")
         => /\ Cardinality({w \in Adding : CurrentArtist(wk[w]) = a}) = 1
            /\ ~(\E w \in Workers : wk[w].pc = "cache_get" /\ CurrentArtist(wk[w]) = a)
  /\ mpc = "done" => \A a \in ArtistIds : add_calls[a] = 1 => cache[a] = "2"

\* A worker whose response carries, complete, an artist that another
\* response has already written stands at the cache read of that artist.
C2_Witness ==
  \E w \in Workers :
    /\ wk[w].pc = "cache_get"
    /\ Head(wk[w].al).full
    /\ add_calls[Head(wk[w].al).id] = 1
    /\ cache[Head(wk[w].al).id] = "2"

\* C3: the cache state of every artist id only moves forward along
\* absent -> BATCHED -> WRITTEN.
C3_CacheMonotone ==
  [][\A a \in ArtistIds : Rank(cache'[a]) >= Rank(cache[a])]_vars

\* A worker whose response carries, without detail, an artist that is
\* WRITTEN stands at the cache read of that artist, and some artist has
\* gone through BATCHED to WRITTEN.
C3_Witness ==
  /\ \E w \in Workers :
       /\ wk[w].pc = "cache_get"
       /\ ~Head(wk[w].al).full
       /\ cache[Head(wk[w].al).id] = "2"
  /\ \E a \in ArtistIds : cache[a] = "2" /\ batch_adds[a] = 1

\* The number of emitted /artists requests whose ids contain a.
EmittedWith(a) == Cardinality({i \in 1..Len(emitted) : a \in Range(emitted[i])})

\* C4: an artist id is marked BATCHED and fed to the coalescer at most once
\* and is in the ids of at most one emitted /artists request; once it is
\* WRITTEN no step writes its cache entry, adds it to the coalescer or
\* appends it to the writer.
C4_BatchedAtMostOnce ==
  /\ [](\A a \in ArtistIds : batch_adds[a] <= 1 /\ EmittedWith(a) <= 1)
  /\ [][\A a \in ArtistIds :
          cache[a] = "2" => /\ cache'[a] = "2"
                            /\ batch_adds'[a] = batch_adds[a]
                            /\ add_calls'[a] = add_calls[a]]_vars

\* A worker whose response carries, without detail, an artist that is
\* BATCHED and in an emitted request stands at the cache read of it.
C4_Witness ==
  \E w \in Workers :
    /\ wk[w].pc = "cache_get"
    /\ ~Head(wk[w].al).full
    /\ cache[Head(wk[w].al).id] = "1"
    /\ batch_adds[Head(wk[w].al).id] = 1
    /\ EmittedWith(Head(wk[w].al).id) = 1

\* A call of the component driven alone has just been made.
Called(name) == ops' = ops + 1 /\ lastop'.op = name

\* C5: for the coalescer alone, with add and build calls in any order: the
\* pending set is exactly the distinct ids added since the last build; add
\* of a pending id changes nothing; build returns exactly those ids, each
\* once, and leaves the pending set empty (so a build right after a build
\* returns nothing); every id ever added is pending or in a built batch,
\* and no id is in more built batches than it was added.
C5_CoalescerExact ==
  /\ [](ids = since /\ num_ids = Cardinality(ids))
  /\ [][Called("add") =>
          /\ ids' = ids \cup {lastop'.arg}
          /\ (lastop'.arg \in ids => ids' = ids /\ num_ids' = num_ids)]_vars
  /\ [][Called("build") =>
          /\ Range(returned') = since
          /\ Len(returned') = Cardinality(since)
          /\ ids' = {} /\ num_ids' = 0
          /\ (lastop.op = "build" => returned' = <<>>)]_vars
  /\ [](\A a \in ArtistIds :
          /\ batch_adds[a] > 0 => (a \in ids \/ EmittedWith(a) > 0)
          /\ EmittedWith(a) <= batch_adds[a])

\* add(a), add(a), add(b), build(): the build returned both ids
C5_Witness ==
  /\ lastop.op = "build"
  /\ Len(returned) = 2
  /\ \E a \in ArtistIds : a \in Range(returned) /\ batch_adds[a] >= 2

\* The endpoints flush took from the routes of prio, from position i on.
RECURSIVE TakenInOrder(_, _, _, _)
TakenInOrder(prio, before, after, i) ==
  IF i > Len(prio) THEN <<>>
  ELSE SubSeqTo(before[prio[i]], Len(before[prio[i]]) - Len(after[prio[i]]))
         \o TakenInOrder(prio, before, after, i + 1)

AtLeast(x, y) == x.num * y.den >= y.num * x.den

\* C6: set_priority installs the routes of its scores, highest score first;
\* flush(n) returns at most n endpoints; every staging queue keeps a suffix
\* of what it held, in order, and a route outside the priority keeps
\* everything; the returned list is the removed heads, route by route in
\* priority order; a route gives nothing while a route before it still
\* holds an endpoint, and flush stops short of n only when the routes of
\* the priority are empty.  In the P5 scenario flush(2) returns [x, z] and
\* the following flush(1) returns [y] (x, y, z are calls 2, 3, 4).
C6_FlushByPriority ==
  /\ [][Called("set_priority") =>
          LET sc == lastop'.scores
          IN  /\ Len(pq_priority') = Len(sc.keys)
              /\ Range(pq_priority') = Range(sc.keys)
              /\ \A i, j \in 1..Len(pq_priority') :
                   i < j => AtLeast(sc.val[pq_priority'[i]], sc.val[pq_priority'[j]])]_vars
  /\ [][Called("flush") =>
          /\ Len(returned') <= lastop'.n
          /\ \A r \in Routes :
               /\ Len(pq_queues'[r]) <= Len(pq_queues[r])
               /\ pq_queues'[r] = SubSeqFrom(pq_queues[r], Len(pq_queues[r]) - Len(pq_queues'[r]))
               /\ (r \notin Range(pq_priority) => pq_queues'[r] = pq_queues[r])
          /\ returned' = TakenInOrder(pq_priority, pq_queues, pq_queues', 1)
          /\ \A i, j \in 1..Len(pq_priority) :
               (i < j /\ pq_queues'[pq_priority[j]] # pq_queues[pq_priority[j]])
                 => pq_queues'[pq_priority[i]] = <<>>
          /\ (Len(returned') < lastop'.n
                => \A i \in 1..Len(pq_priority) : pq_queues'[pq_priority[i]] = <<>>)]_vars
  /\ [](p5 = 5 => returned = <<2, 4>>)
  /\ [](p5 = 6 => returned = <<3>>)

\* the P5 scenario has run to its second flush
C6_Witness == p5 = 6 /\ lastop.op = "flush" /\ pq_size = 0

\* The two halves of C7.
C7_BatchOnPrimary ==
  [][(emitted' # emitted) => ArtistsEP(emitted'[Len(emitted')]) \in Range(queue')]_vars

C7_BatchPreempts ==
  [][(queue # <<>> /\ queue' = Tail(queue)) => ~(\E p \in behind : p[2] = Head(queue) /\ p[1] # p[2])]_vars

\* C7: an emitted /artists request is on the work queue as soon as it is
\* emitted, and no worker takes an endpoint that was staged or queued at
\* the moment of the emission before it takes the /artists request.
C7_BatchesPreemptTraversal == C7_BatchOnPrimary /\ C7_BatchPreempts

\* Nothing is queued, staged, held by a worker or waiting to be put.
Quiescent ==
  /\ queue = <<>>
  /\ \A r \in Routes : pq_queues[r] = <<>>
  /\ \A w \in Workers : ~InFlight(wk[w]) /\ wk[w].out = <<>>
  /\ mout = <<>>

\* C8: when run leaves its loop and cancels the workers, the quota is
\* reached, or the work queue and all staging queues are empty, no worker
\* holds an item it has not finished and no flushed endpoint waits to be put.
C8_ExitOnlyWhenDone ==
  [][(mpc # "done" /\ mpc' = "done") => (total >= quota \/ Quiescent)]_vars

\* The number of artists the scripted responses make discoverable.
K == Cardinality(ArtistIds)

\* C9: with every fetch succeeding and the K scripted artists fewer than the
\* quota, a finished run has written all K artists and emptied its queues.
C9_TerminatesComplete ==
  (mpc = "done" /\ K < quota)
    => /\ total = K
       /\ \A a \in ArtistIds : cache[a] = "2"
       /\ queue = <<>>
       /\ \A r \in Routes : pq_queues[r] = <<>>

\* C10: for every fetch answered 429, with or without a Retry-After header,
\* once the item is finished rate_limit_hits was raised by exactly 1,
\* incr_attempts was called exactly once, retry_after is at most the header
\* value when there was one, and the endpoint was put back exactly once.
C10_RateLimitedReinjected ==
  \A w \in Workers :
    (wk[w].hit /\ ~InFlight(wk[w]) /\ ~wk[w].canc /\ wk[w].pc # "cancelled")
      => /\ wk[w].hits = 1
         /\ wk[w].incd = 1
         /\ wk[w].reinj = 1
         /\ wk[w].hdr # NoSeconds => (retry_after # NoSeconds /\ retry_after <= wk[w].hdr)

\* An item whose fetch failed has been finished by the worker that took it.
FinishedItem(L) == ~InFlight(L) /\ ~L.canc /\ L.pc # "cancelled"

\* The two halves of C11.
C11_PutBackOnce ==
  \A w \in Workers :
    (wk[w].tf # None /\ FinishedItem(wk[w])) => (wk[w].reinj = 1 /\ wk[w].disp = 0)

C11_NothingElseChanges ==
  [][\A w \in Workers :
       (wk[w].pc = "fetch" /\ wk'[w].tf # None)
         => /\ cache' = cache
            /\ pq_queues' = pq_queues
            /\ route_data' = route_data
            /\ total' = total]_vars

\* C11: an item whose fetch ended in a transport error, a timeout or a 5xx
\* status is put back on the work queue exactly once and no route handler
\* is called for it; the step that receives the failure leaves the cache,
\* the staging queues, the route metrics and total unchanged.
C11_TransientReinjected == []C11_PutBackOnce /\ C11_NothingElseChanges

\* The two halves of C12.
C12_NoFetchAfterTrip ==
  [][\A w \in Workers :
       (rate_limit_hits >= RATE_LIMIIT_SAFETY /\ wk[w].pc # "fetch") => wk'[w].pc # "fetch"]_vars

C12_HitsBounded == rate_limit_hits <= RATE_LIMIIT_SAFETY

\* C12: once rate_limit_hits has reached the safety threshold no worker
\* starts a fetch, the workers that were in a backoff sleep at that moment
\* included, and rate_limit_hits never exceeds the threshold.
C12_SafetyTripStopsFetching == C12_NoFetchAfterTrip /\ []C12_HitsBounded

\* C13: no successful response is dispatched to a route handler by a worker
\* that read get_backoff() while attempts was 0, did not wait, and finds the
\* global attempt count raised by another worker's 429 when its response
\* arrives.
C13_BackoffBindsEveryWorker ==
  [][\A w \in Workers :
       (wk[w].pc = "fetch" /\ wk'[w].disp = wk[w].disp + 1 /\ wk'[w].tf = None)
         => ~(attempts > 0 /\ wk[w].seen = 0)]_vars

\* C14: after any calls of incr_attempts and set_retry_after, get_backoff()
\* returns 0 when attempts = 0, and otherwise a wait w with
\* 0 <= w <= min(cap, 2^(attempts-1)) and, when retry_after is set,
\* w <= retry_after.
C14_BackoffBounds ==
  lastop.op = "get_backoff" =>
    LET w == lastop.n
        cap == lastop.arg
    IN  /\ attempts = 0 => w = 0
        /\ attempts > 0 => 0 <= w /\ w <= cap /\ w <= Pow2(attempts - 1)
        /\ (attempts > 0 /\ retry_after # NoSeconds) => w <= retry_after

\* attempts = 3, retry_after = 2, cap = 10: the jitter range is [0, 4] and
\* the wait returned is the Retry-After suggestion, 2.
C14_Witness ==
  /\ lastop.op = "get_backoff"
  /\ attempts = 3 /\ retry_after = 2 /\ lastop.arg = 10 /\ lastop.n = 2

\* The items taken from the work queue and not yet signalled done.
C15_Held == Cardinality({w \in Workers : InFlight(wk[w])})

\* The three parts of C15.
C15_UnfinishedExact == unfinished = Len(queue) + C15_Held /\ unfinished >= 0

C15_DoneWhenItemEnds ==
  [][\A w \in Workers :
       (InFlight(wk[w]) /\ (Raised(wk'[w]) \/ wk'[w].canc) /\ ~Raised(wk[w]))
         => ~InFlight(wk'[w])]_vars

C15_WorkerSurvives ==
  \A w \in Workers : (wk[w].pc = "cancelled" => mpc = "done") /\ ~Ended(wk[w])

\* C15: the unfinished count of the work queue always equals the items
\* queued plus the items a worker holds, and is never negative; the step in
\* which an item raises, or its worker is cancelled, signals it done; and a
\* worker stops only by the cancellation at the end of run().
C15_TaskDoneExactlyOnce ==
  /\ [](C15_UnfinishedExact /\ C15_WorkerSurvives)
  /\ C15_DoneWhenItemEnds

\* A worker whose item raised has taken the next item, and a worker was
\* cancelled while it held an item; everything is signalled done.
C15_Witness ==
  /\ \E w \in Workers : wk[w].prevexc
  /\ \E w \in Workers : wk[w].canc /\ wk[w].pc = "cancelled"
  /\ unfinished = 0

\* Each genre is expanded at most once, and a genre the cache knows has
\* one /recommendations and one /search endpoint staged for it.
C16_ExpandedOnce ==
  \A g \in GenreNames :
    /\ genre_hist[g].recommendations <= 1 /\ genre_hist[g].search <= 1
    /\ cache[g] # "absent" => genre_hist[g].recommendations = 1 /\ genre_hist[g].search = 1
    /\ cache[g] = "absent" => genre_hist[g].met <= 1

C17_NonePending ==
  /\ Staged = {}
  /\ mout = <<>>
  /\ \A w \in Workers : wk[w].out = <<>>
  /\ queue = <<>>

\* Every worker is suspended in get() on the empty work queue while a
\* staging queue holds an endpoint.
C17_AllBlocked ==
  /\ \A w \in Workers : wk[w].pc = "get" /\ w \in Range(getters)
  /\ queue = <<>>
  /\ pq_size > 0

C17_FlushComing == Main \in Range(ready) /\ mpc # "done"

\* C17: on an event loop that keeps running, whenever an endpoint is in a
\* staging queue there comes a moment at which every endpoint staged until
\* then has left the staging queues in a flush and the work queue in a
\* worker's get(), unless the quota is reached first; and whenever all
\* workers wait on the empty work queue while an endpoint is staged, run()
\* is ready to flush.
C17_StagedWorkIsTaken ==
  /\ (Staged # {}) ~> (C17_NonePending \/ QuotaReached(total, quota))
  /\ [](C17_AllBlocked => C17_FlushComing)

C17_Witness == C17_AllBlocked /\ ~QuotaReached(total, quota)

\* The parts of C18: the steps of attempts, and the steps of retry_after.
C18_AttemptsSteps ==
  [][/\ attempts' >= attempts
     /\ attempts' # attempts => attempts' = attempts + 1
     /\ \A w \in Workers :
          (wk[w].pc = "incr_attempts" /\ wk'[w].pc # "incr_attempts")
            => attempts' = attempts + 1]_vars

C18_RetryAfterSteps ==
  [][/\ retry_after # NoSeconds => (retry_after' # NoSeconds /\ retry_after' <= retry_after)
     /\ \A w \in Workers :
          (wk[w].pc = "set_retry_after" /\ wk'[w].pc # "set_retry_after")
            => retry_after' = IF retry_after = NoSeconds THEN wk[w].ra
                              ELSE Min(retry_after, wk[w].ra)
     /\ (\A w \in Workers : wk[w].pc # "set_retry_after") => retry_after' = retry_after]_vars

\* C18: over the crawl with failed fetches of every kind, attempts never
\* decreases and grows by one exactly in the incr_attempts calls; each
\* set_retry_after(r) leaves retry_after at r when it was unset and at
\* min(retry_after, r) otherwise, nothing else changes it, and once set it
\* never grows or becomes unset.
C18_BackoffStateMonotone == C18_AttemptsSteps /\ C18_RetryAfterSteps

\* Two 429 responses, with Retry-After 1 and 2, left retry_after at 1 and
\* attempts at 2, and a successful response was dispatched by a worker that
\* had read attempts = 1.
C18_Witness ==
  /\ attempts = 2 /\ retry_after = 1
  /\ \E w \in Workers : wk[w].hdr = 2 /\ wk[w].incd = 1
  /\ \E w \in Workers : wk[w].seen = 1 /\ wk[w].disp = 1

\* C19: when the handling of a successful response whose artists start with
\* one malformed item (a null, or an object without id) ends, the response
\* has been charged to its route's metrics and, unless the quota is
\* reached, every well-formed artist after the malformed item is known to
\* the cache (batched or written).
C19_OnlyOffendingItemSkipped ==
  [][\A w \in Workers :
       (InFlight(wk[w]) /\ ~InFlight(wk'[w]) /\ ~wk'[w].canc /\ wk'[w].bad # None)
         => /\ route_data'[RouteOf(wk[w].ep.path)].calls
                 = route_data[RouteOf(wk[w].ep.path)].calls + 1
            /\ ~QuotaReached(total', quota)
                 => \A i \in 1..Len(Response(wk[w].ep).artists) :
                      cache'[Response(wk[w].ep).artists[i].id] # "absent"]_vars

\* A worker's finally block starts a reprioritisation, or a flush, for
\* reasons other than its cancellation.
C20_Triggered(w) ==
  /\ ~wk'[w].canc
  /\ \/ wk[w].pc # "set_priority" /\ wk'[w].pc = "set_priority"
     \/ wk[w].pc \notin {"set_priority", "flush"} /\ wk'[w].pc = "flush"

\* C20: a handled item starts a reprioritisation or a flush only if the
\* count of written artists changed while it was handled: not an item
\* dropped as soon as it is taken, and not an item during whose handling
\* the count stayed what it was when the item was taken.
C20_OncePerNewMultiple ==
  [][\A w \in Workers :
       C20_Triggered(w) => (wk[w].pc # "get" /\ wk[w].tot0 # total')]_vars

\* C21: an item whose fetch returned 401 has been put back on the work
\* queue exactly once when its handling ends, also when the token refresh
\* failed, and no handler ran for it; an item whose fetch returned 403 has
\* not been put back and no handler ran for it.
C21_AuthOutcomes ==
  \A w \in Workers :
    FinishedItem(wk[w]) =>
      /\ wk[w].auth \in {"401", "refresh failed"} => (wk[w].reinj = 1 /\ wk[w].disp = 0)
      /\ wk[w].auth = "403" => (wk[w].reinj = 0 /\ wk[w].disp = 0)

\* C22: every /artists request the artist pipeline has emitted carries at
\* least 1 and at most BatchSize ids, and a worker on its way from build()
\* to the put holds such a request.
C22_BatchWithinCap ==
  /\ \A i \in 1..Len(emitted) : Len(emitted[i]) >= 1 /\ Len(emitted[i]) <= BatchSize
  /\ \A w \in Workers :
       wk[w].pc = "put_artists" => (Len(wk[w].built) >= 1 /\ Len(wk[w].built) <= BatchSize)

\* A request of BatchSize ids was emitted and the coalescer holds a pending
\* id again.
C22_Witness == emitted # <<>> /\ Len(emitted[1]) = BatchSize /\ ids # {}

\* The ids sent in some emitted /artists request.
C23_Sent == UNION {Range(emitted[i]) : i \in 1..Len(emitted)}

\* C23: when run() has returned with the quota not reached, every worker
\* having been cancelled while it waited for work, the coalescer's pending
\* set is empty and every id the cache holds as batched was sent in an
\* emitted /artists request.
C23_NoStrandedBatched ==
  (/\ mpc = "done" /\ ~QuotaReached(total, quota)
   /\ \A w \in Workers : wk[w].pc = "cancelled" /\ ~wk[w].canc)
    => /\ ids = {}
       /\ \A a \in ArtistIds : cache[a] = "1" => a \in C23_Sent

\* C24: when run() has returned, every worker having been cancelled while
\* it waited for work, the writer's buffer is empty and the file has the
\* rows of all the artists counted in _total, which are the artists the
\* cache holds as written.
C24_AllRowsOnFile ==
  (mpc = "done" /\ \A w \in Workers : wk[w].pc = "cancelled" /\ ~wk[w].canc)
    => /\ artists = <<>>
       /\ Len(file) = total
       /\ \A a \in ArtistIds : cache[a] = "2" => a \in Range(file)

=============================================================================
